---- MODULE Spec2Model ----
(***************************************************************************)
(* Mkrul: the rule compiler of src/mkrul.go as a state machine.            *)
(*                                                                         *)
(* A Go string is a TLA+ string (all inputs are printable ASCII, so a rune *)
(* is one byte and one character); a []string is a sequence of strings; a  *)
(* byte stream is a sequence of numbers 0..255.  The program is single-    *)
(* threaded: pc is the position of main() in the code, entry is the        *)
(* function the run was started from (main, or parseRule called on its own *)
(* with one rule string).                                                  *)
(***************************************************************************)
EXTENDS Integers, Sequences, FiniteSets, TLC

\* ------------------------------------------------------------- constants
VERSION == 4

CTX == 1
KEY == 2
VAL == 3
DEPTH == 4

NUMERIC == 1
\* STRING of the source (STRING is a TLA+ keyword)
STRING_ == 2
REGEXP == 3

BLOCK == 1
PASS == 2
EQ == 3
NEQ == 4

AUTH_HEADER == 11
HEADERS == 4
URLENC == 3
BASE64 == 9
BASE64_URL == 10
COOKIE == 8
JSON == 5
JSON_OBJ == 6
JSON_ARRAY == 7
PATH == 2
HTTP == 1
JWT == 12

\* --------------------------------------------------------------- bounds
\* longest rule text given to parseRule called on its own
MaxLen == 5
\* most endpoints in the input of main
MaxEndpoints == 2
\* most names in the list given to writeCtx called on its own
MaxNames == 3
\* longest path of the endpoint whose path is drawn from all texts
MaxPath == 4
\* longest first rule of the endpoint whose first rule is drawn from all texts
MaxScan == 4
\* longest of the short strings given to writeStr called on its own
MaxStr == 5

\* ------------------------------------------------------ strings and bytes
\* the printable ASCII characters of codes 32..95 and of codes 97..126
AsciiLow == " !\"#$%&'()*+,-./0123456789:;<=>?@ABCDEFGHIJKLMNOPQRSTUVWXYZ[\\]^_"
AsciiHigh == "abcdefghijklmnopqrstuvwxyz{|}~"

\* the i-th rune of s, 1-based
At(s, i) == SubSeq(s, i, i)

\* the byte of a one-character string: []byte(val)
Ord(c) ==
    IF \E k \in 1..Len(AsciiLow) : At(AsciiLow, k) = c
    THEN 31 + (CHOOSE k \in 1..Len(AsciiLow) : At(AsciiLow, k) = c)
    ELSE 96 + (CHOOSE k \in 1..Len(AsciiHigh) : At(AsciiHigh, k) = c)

\* []byte(val)
Bytes(s) == [k \in 1..Len(s) |-> Ord(At(s, k))]

\* unicode.IsSpace on the ASCII range
IsSpace(r) == r \in {" ", "\t", "\n", "\r", "\f"}

\* strings.HasPrefix
HasPrefix(s, p) == Len(s) >= Len(p) /\ SubSeq(s, 1, Len(p)) = p

RECURSIVE TrimLeft(_, _)
TrimLeft(s, cut) ==
    IF s # "" /\ At(s, 1) \in cut THEN TrimLeft(Tail(s), cut) ELSE s

RECURSIVE TrimRight(_, _)
TrimRight(s, cut) ==
    IF s # "" /\ At(s, Len(s)) \in cut
    THEN TrimRight(SubSeq(s, 1, Len(s) - 1), cut) ELSE s

\* strings.Trim(s, cutset): every leading and trailing rune of the cutset
Trim(s, cut) == TrimRight(TrimLeft(s, cut), cut)

\* strings.TrimSpace
TrimSpace(s) == Trim(s, {" ", "\t", "\n", "\r", "\f"})

\* strings.Split(s, sep) for a one-character sep: Split("", sep) is <<"">>
RECURSIVE SplitFrom(_, _, _)
SplitFrom(s, sep, k) ==
    IF k > Len(s) THEN <<s>>
    ELSE IF At(s, k) = sep
         THEN <<SubSeq(s, 1, k - 1)>> \o SplitFrom(SubSeq(s, k + 1, Len(s)), sep, 1)
         ELSE SplitFrom(s, sep, k + 1)

Split(s, sep) == SplitFrom(s, sep, 1)

\* ---------------------------------------------------------------- state
VARIABLES
    entry,      \* the function this run started from
    pc,         \* position in the code
    epts,       \* main: the decoded endpoints
    snts,       \* main: the sentinels makeSentinels returned
    err,        \* the error the run ended with
    old,        \* the destination file as it was before the run
    dest,       \* the destination file
    i,          \* makeSentinels: index of the endpoint
    result,     \* makeSentinels: result
    sentinel,   \* makeSentinels: sentinel
    ri,         \* makeSentinels: index of the rule
    text,       \* scanGroups: text
    pos,        \* scanGroups: runes of buf already read
    sb,         \* scanGroups: sb
    group,      \* scanGroups: group
    groups,     \* scanGroups: result
    delim,      \* scanDelim: delim
    escape,     \* scanDelim: escape
    gi,         \* parseRule: index of the group
    rule,       \* parseRule: result
    tokens,     \* parseGroup: tokens
    ti,         \* parseGroup: index of the token
    curr,       \* parseGroup: curr
    stmts,      \* parseGroup: result
    w,          \* offsetTable: the NopWriter
    offs,       \* offsetTable: result, then writeSentinels: offs
    si,         \* offsetTable and writeSentinels: index of the sentinel
    recAt       \* writeSentinels: file offset at which each record was begun

vars == <<entry, pc, epts, snts, err, old, dest, i, result, sentinel, ri,
          text, pos, sb, group, groups, delim, escape, gi, rule,
          tokens, ti, curr, stmts, w, offs, si, recAt>>

mainVars == <<epts, snts, old, dest, i, result, sentinel, ri>>
scanVars == <<text, pos, sb, group, groups, delim, escape>>
ruleVars == <<gi, rule>>
groupVars == <<tokens, ti, curr, stmts>>
writeVars == <<w, offs, si, recAt>>

\* error values: nil, or a kind with the offending text
Nil == [kind |-> "nil", arg |-> ""]
Error(k, a) == [kind |-> k, arg |-> a]

\* Stmt{}
EmptyStmt == [Var |-> 0, Op |-> 0, Val |-> "", Regexp |-> ""]

\* Sentinel{}
EmptySentinel == [Method |-> "", Path |-> <<>>, Rules |-> <<>>]

\* no file at the destination path
Absent == [exists |-> FALSE, data |-> <<>>]

\* ------------------------------------------------------------ tokenizer
\* scanGroups, one turn of its loop on a rune r
ScanGroupsRune ==
    /\ pc = "scanGroups"
    /\ pos < Len(text)
    /\ LET r == At(text, pos + 1) IN
       /\ pos' = pos + 1
       /\ IF IsSpace(r)
          THEN UNCHANGED <<pc, sb, group, groups, delim, escape>>
          ELSE IF r = ":"
          THEN /\ groups' = Append(groups, group)
               /\ group' = <<>>
               /\ UNCHANGED <<pc, sb, delim, escape>>
          ELSE IF r \in {"'", "/"}
          THEN /\ sb' = r
               /\ delim' = r
               /\ escape' = FALSE
               /\ pc' = "scanDelim"
               /\ UNCHANGED <<group, groups>>
          ELSE /\ sb' = r
               /\ pc' = "scanWord"
               /\ UNCHANGED <<group, groups, delim, escape>>
    /\ UNCHANGED <<entry, err, text, mainVars, ruleVars, groupVars, writeVars>>

\* scanWord, one turn of its loop; on return scanGroups appends the token
ScanWord ==
    /\ pc = "scanWord"
    /\ IF pos >= Len(text)
       THEN /\ group' = Append(group, sb)
            /\ sb' = ""
            /\ pc' = "scanGroups"
            /\ UNCHANGED pos
       ELSE LET r == At(text, pos + 1) IN
            /\ pos' = pos + 1
            /\ IF IsSpace(r)
               THEN /\ group' = Append(group, sb)
                    /\ sb' = ""
                    /\ pc' = "scanGroups"
               ELSE /\ sb' = sb \o r
                    /\ UNCHANGED <<group, pc>>
    /\ UNCHANGED <<entry, err, text, groups, delim, escape,
                   mainVars, ruleVars, groupVars, writeVars>>

\* scanDelim writing the backslash of an escape too
ScanDelimKeepEscape ==
    /\ pc = "scanDelim"
    /\ IF pos >= Len(text)
       THEN /\ pc' = "exit"
            /\ err' = Error("fatal", "invalid string")
            /\ UNCHANGED <<pos, sb, group, escape>>
       ELSE LET r == At(text, pos + 1) IN
            /\ pos' = pos + 1
            /\ UNCHANGED err
            /\ IF escape
               THEN /\ sb' = sb \o r
                    /\ escape' = FALSE
                    /\ UNCHANGED <<group, pc>>
               ELSE IF r = "\\"
               THEN /\ sb' = sb \o r
                    /\ escape' = TRUE
                    /\ UNCHANGED <<group, pc>>
               ELSE IF r = delim
               THEN /\ group' = Append(group, sb \o r)
                    /\ sb' = ""
                    /\ pc' = "scanGroups"
                    /\ UNCHANGED escape
               ELSE /\ sb' = sb \o r
                    /\ UNCHANGED <<group, escape, pc>>
    /\ UNCHANGED <<entry, text, groups, delim, mainVars, ruleVars, groupVars, writeVars>>

\* scanDelim returning what it has at the end of input
ScanDelimEOFReturns ==
    /\ pc = "scanDelim"
    /\ IF pos >= Len(text)
       THEN /\ group' = Append(group, sb)
            /\ sb' = ""
            /\ pc' = "scanGroups"
            /\ UNCHANGED <<pos, err, escape>>
       ELSE LET r == At(text, pos + 1) IN
            /\ pos' = pos + 1
            /\ UNCHANGED err
            /\ IF escape
               THEN /\ sb' = sb \o r
                    /\ escape' = FALSE
                    /\ UNCHANGED <<group, pc>>
               ELSE IF r = "\\"
               THEN /\ escape' = TRUE
                    /\ UNCHANGED <<sb, group, pc>>
               ELSE IF r = delim
               THEN /\ group' = Append(group, sb \o r)
                    /\ sb' = ""
                    /\ pc' = "scanGroups"
                    /\ UNCHANGED escape
               ELSE /\ sb' = sb \o r
                    /\ UNCHANGED <<group, escape, pc>>
    /\ UNCHANGED <<entry, text, groups, delim, mainVars, ruleVars, groupVars, writeVars>>

\* scanDelim, one turn of its loop; end of input inside the literal is
\* log.Fatalln: the process exits
ScanDelim ==
    /\ pc = "scanDelim"
    /\ IF pos >= Len(text)
       THEN /\ pc' = "exit"
            /\ err' = Error("fatal", "invalid string")
            /\ UNCHANGED <<pos, sb, group, escape>>
       ELSE LET r == At(text, pos + 1) IN
            /\ pos' = pos + 1
            /\ UNCHANGED err
            /\ IF escape
               THEN /\ sb' = sb \o r
                    /\ escape' = FALSE
                    /\ UNCHANGED <<group, pc>>
               ELSE IF r = "\\"
               THEN /\ escape' = TRUE
                    /\ UNCHANGED <<sb, group, pc>>
               ELSE IF r = delim
               THEN /\ group' = Append(group, sb \o r)
                    /\ sb' = ""
                    /\ pc' = "scanGroups"
                    /\ UNCHANGED escape
               ELSE /\ sb' = sb \o r
                    /\ UNCHANGED <<group, escape, pc>>
    /\ UNCHANGED <<entry, text, groups, delim, mainVars, ruleVars, groupVars, writeVars>>

\* scanGroups at the end of input: the last group is kept unless empty, and
\* parseRule starts its loop over the groups
ScanGroupsEOF ==
    /\ pc = "scanGroups"
    /\ pos >= Len(text)
    /\ groups' = IF Len(group) # 0 THEN Append(groups, group) ELSE groups
    /\ pc' = "parseRule"
    /\ gi' = 1
    /\ rule' = <<>>
    /\ UNCHANGED <<entry, err, text, pos, sb, group, delim, escape,
                   mainVars, groupVars, writeVars>>

\* ---------------------------------------------------------------- parser
\* parseVar taking any name for a field
parseVarLax(val) ==
    CASE val = "$ctx" -> [n |-> CTX, err |-> Nil]
      [] val = "$key" -> [n |-> KEY, err |-> Nil]
      [] val = "$val" -> [n |-> VAL, err |-> Nil]
      [] val = "$depth" -> [n |-> DEPTH, err |-> Nil]
      [] OTHER -> [n |-> 0, err |-> Nil]

parseVar(val) ==
    CASE val = "$ctx" -> [n |-> CTX, err |-> Nil]
      [] val = "$key" -> [n |-> KEY, err |-> Nil]
      [] val = "$val" -> [n |-> VAL, err |-> Nil]
      [] val = "$depth" -> [n |-> DEPTH, err |-> Nil]
      [] OTHER -> [n |-> 0, err |-> Error("unknown variable", val)]

parseOp(val) ==
    CASE val = "block" -> [n |-> BLOCK, err |-> Nil]
      [] val = "pass" -> [n |-> PASS, err |-> Nil]
      [] val = "==" -> [n |-> EQ, err |-> Nil]
      [] val = "!=" -> [n |-> NEQ, err |-> Nil]
      [] OTHER -> [n |-> 0, err |-> Error("unknown operator", val)]

\* parseGroup: what a token does to curr, and the error it raises
setToken(c, token) ==
    IF HasPrefix(token, "'")
    THEN [stmt |-> [c EXCEPT !.Val = Trim(token, {"'"})], err |-> Nil]
    ELSE IF HasPrefix(token, "/")
    THEN [stmt |-> [c EXCEPT !.Regexp = token], err |-> Nil]
    ELSE IF HasPrefix(token, "$")
    THEN [stmt |-> [c EXCEPT !.Var = parseVar(token).n], err |-> parseVar(token).err]
    ELSE [stmt |-> [c EXCEPT !.Op = parseOp(token).n], err |-> parseOp(token).err]

\* the test of parseGroup without its block and pass case
completeOnlyConditions(c) ==
    c.Var # 0 /\ c.Op # 0 /\ (Len(c.Val) # 0 \/ Len(c.Regexp) # 0)

\* parseGroup: the test that appends curr to the result
complete(c) ==
    \/ c.Var # 0 /\ c.Op # 0 /\ (Len(c.Val) # 0 \/ Len(c.Regexp) # 0)
    \/ c.Op = BLOCK \/ c.Op = PASS

\* parseRule, one turn of its loop: parseGroup is called on the next group
ParseRuleGroup ==
    /\ pc = "parseRule"
    /\ gi <= Len(groups)
    /\ tokens' = groups[gi]
    /\ ti' = 1
    /\ curr' = EmptyStmt
    /\ stmts' = <<>>
    /\ pc' = "parseGroup"
    /\ UNCHANGED <<entry, err, mainVars, scanVars, ruleVars, writeVars>>

\* parseGroup, one turn of its loop.  An error returns through parseRule and
\* makeSentinels (both give nil and the error) to main, which exits
ParseGroupToken ==
    /\ pc = "parseGroup"
    /\ ti <= Len(tokens)
    /\ LET r == setToken(curr, tokens[ti]) IN
       IF r.err # Nil
       THEN /\ err' = r.err
            /\ snts' = <<>>
            /\ pc' = "exit"
            /\ UNCHANGED <<ti, curr, stmts>>
       ELSE /\ ti' = ti + 1
            /\ IF complete(r.stmt)
               THEN /\ stmts' = Append(stmts, r.stmt)
                    /\ curr' = EmptyStmt
               ELSE /\ curr' = r.stmt
                    /\ UNCHANGED stmts
            /\ UNCHANGED <<err, snts, pc>>
    /\ UNCHANGED <<entry, epts, old, dest, i, result, sentinel, ri, tokens,
                   scanVars, ruleVars, writeVars>>

\* parseGroup appending what is left in curr before it returns
ParseGroupReturnFlush ==
    /\ pc = "parseGroup"
    /\ ti > Len(tokens)
    /\ rule' = Append(rule, IF curr # EmptyStmt THEN Append(stmts, curr) ELSE stmts)
    /\ gi' = gi + 1
    /\ pc' = "parseRule"
    /\ UNCHANGED <<entry, err, mainVars, scanVars, groupVars, writeVars>>

\* parseGroup returns its result, parseRule appends it
ParseGroupReturn ==
    /\ pc = "parseGroup"
    /\ ti > Len(tokens)
    /\ rule' = Append(rule, stmts)
    /\ gi' = gi + 1
    /\ pc' = "parseRule"
    /\ UNCHANGED <<entry, err, mainVars, scanVars, groupVars, writeVars>>

\* parseRule returns its result, makeSentinels appends it to the sentinel
ParseRuleReturn ==
    /\ pc = "parseRule"
    /\ gi > Len(groups)
    /\ IF entry = "main"
       THEN /\ sentinel' = [sentinel EXCEPT !.Rules = Append(@, rule)]
            /\ ri' = ri + 1
            /\ pc' = "rules"
       ELSE /\ pc' = "done"
            /\ UNCHANGED <<sentinel, ri>>
    /\ UNCHANGED <<entry, err, epts, snts, old, dest, i, result,
                   scanVars, ruleVars, groupVars, writeVars>>

\* -------------------------------------------------------- makeSentinels
\* every piece of the path between slashes, the empty ones too
PathSegmentsAll(path) == Split(path, "/")

\* the non-empty pieces of the path between slashes
PathSegments(path) == SelectSeq(Split(path, "/"), LAMBDA val : Len(val) # 0)

\* makeSentinels, one turn of its loop: method and path of the endpoint
MakeSentinelsEndpoint ==
    /\ pc = "makeSentinels"
    /\ i <= Len(epts)
    /\ sentinel' = [Method |-> epts[i].Method,
                    Path |-> PathSegments(epts[i].Path),
                    Rules |-> <<>>]
    /\ ri' = 1
    /\ pc' = "rules"
    /\ UNCHANGED <<entry, err, epts, snts, old, dest, i, result,
                   scanVars, ruleVars, groupVars, writeVars>>

\* makeSentinels calls parseRule on the next rule, which calls scanGroups
MakeSentinelsRule ==
    /\ pc = "rules"
    /\ ri <= Len(epts[i].Rules)
    /\ text' = epts[i].Rules[ri]
    /\ pos' = 0
    /\ sb' = ""
    /\ group' = <<>>
    /\ groups' = <<>>
    /\ pc' = "scanGroups"
    /\ UNCHANGED <<entry, err, mainVars, delim, escape, ruleVars, groupVars, writeVars>>

\* makeSentinels putting the sentinel first
MakeSentinelsPrepend ==
    /\ pc = "rules"
    /\ ri > Len(epts[i].Rules)
    /\ result' = <<sentinel>> \o result
    /\ i' = i + 1
    /\ pc' = "makeSentinels"
    /\ UNCHANGED <<entry, err, epts, snts, old, dest, sentinel, ri,
                   scanVars, ruleVars, groupVars, writeVars>>

\* makeSentinels appends the sentinel of the endpoint
MakeSentinelsAppend ==
    /\ pc = "rules"
    /\ ri > Len(epts[i].Rules)
    /\ result' = Append(result, sentinel)
    /\ i' = i + 1
    /\ pc' = "makeSentinels"
    /\ UNCHANGED <<entry, err, epts, snts, old, dest, sentinel, ri,
                   scanVars, ruleVars, groupVars, writeVars>>

\* makeSentinels returns, main calls writeSentinels
MakeSentinelsReturn ==
    /\ pc = "makeSentinels"
    /\ i > Len(epts)
    /\ snts' = result
    /\ pc' = "writeSentinels"
    /\ UNCHANGED <<entry, err, epts, old, dest, i, result, sentinel, ri,
                   scanVars, ruleVars, groupVars, writeVars>>

\* ---------------------------------------------------------- the encoder
\* An encoding routine gives the bytes it hands to the sink and its error;
\* the bytes before an error are written.
Out(bytes) == [out |-> bytes, err |-> Nil]

\* a then b; b does not run when a failed
Then(a, b) == IF a.err # Nil THEN a ELSE [out |-> a.out \o b.out, err |-> b.err]

\* binary.Write, LittleEndian: the k low bytes of n, lowest first
RECURSIVE LittleEndian(_, _)
LittleEndian(n, k) ==
    IF k = 0 THEN <<>> ELSE <<n % 256>> \o LittleEndian(n \div 256, k - 1)

\* the conversion uint16(n)
Uint16(n) == n % 65536

writeUint8(val) == Out(LittleEndian(val, 1))

writeUint16(val) == Out(LittleEndian(val, 2))

writeUint64(val) == Out(LittleEndian(val, 8))

writeStr(val) == Then(writeUint16(Uint16(Len(val))), Out(Bytes(val)))

getCtxCode(val) ==
    CASE val = "headers" -> [n |-> HEADERS, err |-> Nil]
      [] val = "urlenc" -> [n |-> URLENC, err |-> Nil]
      [] val = "base64" -> [n |-> BASE64, err |-> Nil]
      [] val = "cookie" -> [n |-> COOKIE, err |-> Nil]
      [] val = "json" -> [n |-> JSON, err |-> Nil]
      [] val = "json_obj" -> [n |-> JSON_OBJ, err |-> Nil]
      [] val = "json_array" -> [n |-> JSON_ARRAY, err |-> Nil]
      [] val = "path" -> [n |-> PATH, err |-> Nil]
      [] val = "http" -> [n |-> HTTP, err |-> Nil]
      [] val = "auth_header" -> [n |-> AUTH_HEADER, err |-> Nil]
      [] val = "base64_url" -> [n |-> BASE64_URL, err |-> Nil]
      [] val = "jwt" -> [n |-> JWT, err |-> Nil]
      [] OTHER -> [n |-> 0, err |-> Error("unknown context", val)]

\* 1 << n
RECURSIVE Shl1(_)
Shl1(n) == IF n = 0 THEN 1 ELSE 2 * Shl1(n - 1)

\* r + (1 << n) in place of the OR
OrBitAdd(r, n) == r + Shl1(n)

\* r | (1 << n)
OrBit(r, n) == IF (r \div Shl1(n)) % 2 = 1 THEN r ELSE r + Shl1(n)

\* writeCtx: the loop over the contexts, from the k-th on, with r so far
RECURSIVE ctxMask(_, _, _)
ctxMask(contexts, k, r) ==
    IF k > Len(contexts) THEN [r |-> r, err |-> Nil]
    ELSE LET c == getCtxCode(TrimSpace(contexts[k])) IN
         IF c.err # Nil THEN [r |-> r, err |-> c.err]
         ELSE ctxMask(contexts, k + 1, OrBit(r, c.n))

writeCtx(val) ==
    LET m == ctxMask(Split(val, "|"), 1, 0) IN
    IF m.err # Nil THEN [out |-> <<>>, err |-> m.err] ELSE writeUint64(m.r)

\* writeSentinel tagging a regex as a string
writeStmtRegexAsString(stmt) ==
    Then(writeUint8(stmt.Var),
    Then(writeUint8(stmt.Op),
         IF stmt.Var = CTX
         THEN Then(writeUint8(NUMERIC), writeCtx(stmt.Val))
         ELSE IF Len(stmt.Regexp) # 0
         THEN Then(writeUint8(STRING_), writeStr(stmt.Regexp))
         ELSE Then(writeUint8(STRING_), writeStr(stmt.Val))))

\* writeSentinel looking at the regex before the field
writeStmtRegexFirst(stmt) ==
    Then(writeUint8(stmt.Var),
    Then(writeUint8(stmt.Op),
         IF Len(stmt.Regexp) # 0
         THEN Then(writeUint8(REGEXP), writeStr(stmt.Regexp))
         ELSE IF stmt.Var = CTX
         THEN Then(writeUint8(NUMERIC), writeCtx(stmt.Val))
         ELSE Then(writeUint8(STRING_), writeStr(stmt.Val))))

\* writeSentinel: one statement
writeStmt(stmt) ==
    Then(writeUint8(stmt.Var),
    Then(writeUint8(stmt.Op),
         IF stmt.Var = CTX
         THEN Then(writeUint8(NUMERIC), writeCtx(stmt.Val))
         ELSE IF Len(stmt.Regexp) # 0
         THEN Then(writeUint8(REGEXP), writeStr(stmt.Regexp))
         ELSE Then(writeUint8(STRING_), writeStr(stmt.Val))))

RECURSIVE writeStmtsFrom(_, _)
writeStmtsFrom(ss, k) ==
    IF k > Len(ss) THEN Out(<<>>)
    ELSE Then(writeStmt(ss[k]), writeStmtsFrom(ss, k + 1))

\* writeSentinel: one clause, its statement count first
writeClause(ss) == Then(writeUint16(Uint16(Len(ss))), writeStmtsFrom(ss, 1))

RECURSIVE writeClausesFrom(_, _)
writeClausesFrom(gs, k) ==
    IF k > Len(gs) THEN Out(<<>>)
    ELSE Then(writeClause(gs[k]), writeClausesFrom(gs, k + 1))

\* writeSentinel: one rule, its clause count first
writeRule(gs) == Then(writeUint16(Uint16(Len(gs))), writeClausesFrom(gs, 1))

RECURSIVE writeRulesFrom(_, _)
writeRulesFrom(rs, k) ==
    IF k > Len(rs) THEN Out(<<>>)
    ELSE Then(writeRule(rs[k]), writeRulesFrom(rs, k + 1))

RECURSIVE writePathFrom(_, _)
writePathFrom(path, k) ==
    IF k > Len(path) THEN Out(<<>>)
    ELSE Then(writeStr(path[k]), writePathFrom(path, k + 1))

writeSentinel(snt) ==
    Then(writeStr(snt.Method),
    Then(writeUint16(Uint16(Len(snt.Path))),
    Then(writePathFrom(snt.Path, 1),
    Then(writeUint16(Uint16(Len(snt.Rules))),
         writeRulesFrom(snt.Rules, 1)))))

\* -------------------------------------------------------- writeSentinels
\* A write of bytes to the file: all of them, or an I/O error after some
FileWrite(bytes, next) ==
    \/ /\ dest' = [dest EXCEPT !.data = @ \o bytes]
       /\ pc' = next
       /\ UNCHANGED err
    \/ \E k \in 0..(Len(bytes) - 1) :
          /\ dest' = [dest EXCEPT !.data = @ \o SubSeq(bytes, 1, k)]
          /\ pc' = "exit"
          /\ err' = Error("io", "write")

\* os.OpenFile with O_CREATE and O_TRUNC
OpenFile ==
    /\ pc = "writeSentinels"
    /\ \E ok \in BOOLEAN :
          IF ok
          THEN /\ dest' = [exists |-> TRUE, data |-> <<>>]
               /\ pc' = "version"
               /\ UNCHANGED err
          ELSE /\ err' = Error("io", "open")
               /\ pc' = "exit"
               /\ UNCHANGED dest
    /\ UNCHANGED <<entry, epts, snts, old, i, result, sentinel, ri,
                   scanVars, ruleVars, groupVars, writeVars>>

WriteVersion ==
    /\ pc = "version"
    /\ FileWrite(LittleEndian(VERSION, 4), "offsetTable")
    /\ UNCHANGED <<entry, epts, snts, old, i, result, sentinel, ri,
                   scanVars, ruleVars, groupVars, writeVars>>

\* offsetTable without the second count
offsetTableStartNoCount(n) == 4 + 2 + 8 * n

\* offsetTable: what the NopWriter holds when the loop over the sentinels
\* starts: a uint32, a uint16, a uint64 per sentinel, a uint16
offsetTableStart(n) == 4 + 2 + 8 * n + 2

OffsetTableBegin ==
    /\ pc = "offsetTable"
    /\ w' = offsetTableStart(Len(snts))
    /\ offs' = <<>>
    /\ si' = 1
    /\ pc' = "count"
    /\ UNCHANGED <<entry, err, mainVars, scanVars, ruleVars, groupVars, recAt>>

\* offsetTable going on after an error of writeSentinel
OffsetTableSentinelSkipsErrors ==
    /\ pc = "count"
    /\ si <= Len(snts)
    /\ w' = w + Len(writeSentinel(snts[si]).out)
    /\ offs' = Append(offs, w)
    /\ si' = si + 1
    /\ UNCHANGED <<err, pc>>
    /\ UNCHANGED <<entry, mainVars, scanVars, ruleVars, groupVars, recAt>>

\* offsetTable, one turn of its loop: the offset, then the counting pass
OffsetTableSentinel ==
    /\ pc = "count"
    /\ si <= Len(snts)
    /\ LET r == writeSentinel(snts[si]) IN
       /\ w' = w + Len(r.out)
       /\ IF r.err # Nil
          THEN /\ offs' = <<>>
               /\ err' = r.err
               /\ pc' = "exit"
               /\ UNCHANGED si
          ELSE /\ offs' = Append(offs, w)
               /\ si' = si + 1
               /\ UNCHANGED <<err, pc>>
    /\ UNCHANGED <<entry, mainVars, scanVars, ruleVars, groupVars, recAt>>

OffsetTableReturn ==
    /\ pc = "count"
    /\ si > Len(snts)
    /\ pc' = "header"
    /\ UNCHANGED <<entry, err, mainVars, scanVars, ruleVars, groupVars, writeVars>>

RECURSIVE offsetBytes(_, _)
offsetBytes(os, k) ==
    IF k > Len(os) THEN <<>>
    ELSE writeUint64(os[k]).out \o offsetBytes(os, k + 1)

\* writeSentinels without the sentinel_count
WriteHeaderNoSentinelCount ==
    /\ pc = "header"
    /\ FileWrite(writeUint16(Uint16(Len(offs))).out \o offsetBytes(offs, 1), "records")
    /\ si' = 1
    /\ UNCHANGED <<entry, epts, snts, old, i, result, sentinel, ri,
                   scanVars, ruleVars, groupVars, w, offs, recAt>>

\* writeSentinels: offset_count, the offsets, sentinel_count
WriteHeader ==
    /\ pc = "header"
    /\ FileWrite(writeUint16(Uint16(Len(offs))).out \o offsetBytes(offs, 1)
                 \o writeUint16(Uint16(Len(snts))).out, "records")
    /\ si' = 1
    /\ UNCHANGED <<entry, epts, snts, old, i, result, sentinel, ri,
                   scanVars, ruleVars, groupVars, w, offs, recAt>>

\* writeSentinels, one turn of its last loop: the real pass of a sentinel
WriteRecord ==
    /\ pc = "records"
    /\ si <= Len(snts)
    /\ recAt' = Append(recAt, Len(dest.data))
    /\ si' = si + 1
    /\ LET r == writeSentinel(snts[si]) IN
       IF r.err # Nil
       THEN /\ dest' = [dest EXCEPT !.data = @ \o r.out]
            /\ err' = r.err
            /\ pc' = "exit"
       ELSE FileWrite(r.out, "records")
    /\ UNCHANGED <<entry, epts, snts, old, i, result, sentinel, ri,
                   scanVars, ruleVars, groupVars, w, offs>>

\* writeSentinels returns nil, main returns
WriteReturn ==
    /\ pc = "records"
    /\ si > Len(snts)
    /\ pc' = "done"
    /\ UNCHANGED <<entry, err, mainVars, scanVars, ruleVars, groupVars, writeVars>>

\* ------------------------------------------------------------ the inputs
\* endpoints.json of the README, and endpoints with the errors of the code
Endpoints ==
    << [Method |-> "POST", Path |-> "/api/user",
        Rules |-> << "$ctx == 'json_obj' $key == 'role' $val == 'admin' : block",
                     "pass" >>],
       [Method |-> "*", Path |-> "/",
        Rules |-> << "$ctx == 'headers|cookie' $val == /^dev_/ : block",
                     "$ctx == 'cookie | headers' $val == /^dev_/ : block" >>],
       [Method |-> "GET", Path |-> "/a//b/",
        Rules |-> << "$ctx == 'jsonx' : block" >>],
       [Method |-> "GET", Path |-> "/x",
        Rules |-> << "pass", "$foo == 'a' : block" >>],
       [Method |-> "PUT", Path |-> "/data/*",
        Rules |-> << "block:pass" >>],
       [Method |-> "", Path |-> "",
        Rules |-> << "$val == /a\\/b/ : $key != 'it\\'s' : pass", "$val == 'abc" >>],
       [Method |-> "", Path |-> "//",
        Rules |-> << "$key == '' $val == 'x' : block",
                     "$val /x/ 'a' == : $key 'k' pass" >>],
       [Method |-> "DELETE", Path |-> "/api/*",
        Rules |-> << "block",
                     "$key $val == != 'a' 'b' : $depth ==",
                     "$depth != /1/" >>],
       [Method |-> "HEAD", Path |-> "/h",
        Rules |-> << "$ctx == /json/ : block" >>] >>

RECURSIVE Lists(_)
Lists(n) ==
    IF n = 0 THEN {<<>>}
    ELSE LET L == Lists(n - 1) IN
         L \cup {Append(l, Endpoints[k]) : l \in L, k \in 1..Len(Endpoints)}

\* a stream an earlier run left at the destination: no sentinel
Previous == [exists |-> TRUE, data |-> <<4, 0, 0, 0, 0, 0, 0, 0>>]

Init ==
    /\ entry = "main"
    /\ pc = "makeSentinels"
    /\ epts \in Lists(MaxEndpoints)
    /\ old \in {Absent, Previous}
    /\ dest = old
    /\ snts = <<>> /\ err = Nil
    /\ i = 1 /\ result = <<>> /\ sentinel = EmptySentinel /\ ri = 1
    /\ text = "" /\ pos = 0 /\ sb = "" /\ group = <<>> /\ groups = <<>>
    /\ delim = "'" /\ escape = FALSE
    /\ gi = 1 /\ rule = <<>>
    /\ tokens = <<>> /\ ti = 1 /\ curr = EmptyStmt /\ stmts = <<>>
    /\ w = 0 /\ offs = <<>> /\ si = 1 /\ recAt = <<>>

Next ==
    \/ MakeSentinelsEndpoint \/ MakeSentinelsRule \/ MakeSentinelsAppend
    \/ MakeSentinelsReturn
    \/ ScanGroupsRune \/ ScanWord \/ ScanDelim \/ ScanGroupsEOF
    \/ ParseRuleGroup \/ ParseGroupToken \/ ParseGroupReturn \/ ParseRuleReturn
    \/ OpenFile \/ WriteVersion
    \/ OffsetTableBegin \/ OffsetTableSentinel \/ OffsetTableReturn
    \/ WriteHeader \/ WriteRecord \/ WriteReturn

Spec == Init /\ [][Next]_vars

\* --------------------------------------------- parseRule on its own
ScanAlphabet == {"'", "/", "\\", ":", " ", "a"}

RECURSIVE Texts(_)
Texts(n) ==
    IF n = 0 THEN {""}
    ELSE LET T == Texts(n - 1) IN T \cup {t \o c : t \in T, c \in ScanAlphabet}

InitRule ==
    /\ entry = "parseRule"
    /\ pc = "scanGroups"
    /\ text \in Texts(MaxLen)
    /\ epts = <<>> /\ old = Absent /\ dest = Absent
    /\ snts = <<>> /\ err = Nil
    /\ i = 1 /\ result = <<>> /\ sentinel = EmptySentinel /\ ri = 1
    /\ pos = 0 /\ sb = "" /\ group = <<>> /\ groups = <<>>
    /\ delim = "'" /\ escape = FALSE
    /\ gi = 1 /\ rule = <<>>
    /\ tokens = <<>> /\ ti = 1 /\ curr = EmptyStmt /\ stmts = <<>>
    /\ w = 0 /\ offs = <<>> /\ si = 1 /\ recAt = <<>>

NextRule ==
    \/ ScanGroupsRune \/ ScanWord \/ ScanDelim \/ ScanGroupsEOF
    \/ ParseRuleGroup \/ ParseGroupToken \/ ParseGroupReturn \/ ParseRuleReturn

SpecRule == InitRule /\ [][NextRule]_vars

\* ------------------- main on one endpoint whose first rule is any text
InitScan ==
    /\ entry = "main"
    /\ pc = "makeSentinels"
    /\ epts \in {<<[Method |-> "GET", Path |-> "/", Rules |-> <<t, "pass">>]>> :
                    t \in Texts(MaxScan)}
    /\ old = Previous
    /\ dest = old
    /\ snts = <<>> /\ err = Nil
    /\ i = 1 /\ result = <<>> /\ sentinel = EmptySentinel /\ ri = 1
    /\ text = "" /\ pos = 0 /\ sb = "" /\ group = <<>> /\ groups = <<>>
    /\ delim = "'" /\ escape = FALSE
    /\ gi = 1 /\ rule = <<>>
    /\ tokens = <<>> /\ ti = 1 /\ curr = EmptyStmt /\ stmts = <<>>
    /\ w = 0 /\ offs = <<>> /\ si = 1 /\ recAt = <<>>

SpecScan == InitScan /\ [][Next]_vars

\* ------------------------------------- main on one endpoint without rules
PathAlphabet == {"/", "a", "*"}

RECURSIVE PathTexts(_)
PathTexts(n) ==
    IF n = 0 THEN {""}
    ELSE LET T == PathTexts(n - 1) IN T \cup {t \o c : t \in T, c \in PathAlphabet}

\* every short path, and the paths of the README
Paths == PathTexts(MaxPath) \cup {"/api/*", "/api/user", "/a//b/"}

InitPath ==
    /\ entry = "main"
    /\ pc = "makeSentinels"
    /\ epts \in {<<[Method |-> "GET", Path |-> p, Rules |-> <<>>]>> : p \in Paths}
    /\ old = Absent
    /\ dest = old
    /\ snts = <<>> /\ err = Nil
    /\ i = 1 /\ result = <<>> /\ sentinel = EmptySentinel /\ ri = 1
    /\ text = "" /\ pos = 0 /\ sb = "" /\ group = <<>> /\ groups = <<>>
    /\ delim = "'" /\ escape = FALSE
    /\ gi = 1 /\ rule = <<>>
    /\ tokens = <<>> /\ ti = 1 /\ curr = EmptyStmt /\ stmts = <<>>
    /\ w = 0 /\ offs = <<>> /\ si = 1 /\ recAt = <<>>

NextPath ==
    \/ MakeSentinelsEndpoint \/ MakeSentinelsAppend \/ MakeSentinelsReturn
    \/ OpenFile \/ WriteVersion
    \/ OffsetTableBegin \/ OffsetTableSentinel \/ OffsetTableReturn
    \/ WriteHeader \/ WriteRecord \/ WriteReturn

SpecPath == InitPath /\ [][NextPath]_vars

\* ---------------------------------------------- writeStr on its own
\* the string of n runes a
RECURSIVE Repeat(_)
Repeat(n) ==
    IF n = 0 THEN ""
    ELSE IF n % 2 = 0 THEN LET h == Repeat(n \div 2) IN h \o h
    ELSE "a" \o Repeat(n - 1)

RECURSIVE MethodTexts(_)
MethodTexts(n) ==
    IF n = 0 THEN {""}
    ELSE LET T == MethodTexts(n - 1) IN T \cup {t \o c : t \in T, c \in {"G", "*"}}

\* short strings, and strings about as long as a uint16 can count
StrValues == MethodTexts(MaxStr) \cup {Repeat(n) : n \in {65535, 65536}}

\* writeStr(w, snt.Method) with w a sink that takes every byte
InitStr ==
    /\ entry = "writeStr"
    /\ pc = "writeStr"
    /\ sentinel \in {[EmptySentinel EXCEPT !.Method = v] : v \in StrValues}
    /\ old = [exists |-> TRUE, data |-> <<>>]
    /\ dest = old
    /\ epts = <<>> /\ snts = <<>> /\ err = Nil
    /\ i = 1 /\ result = <<>> /\ ri = 1
    /\ text = "" /\ pos = 0 /\ sb = "" /\ group = <<>> /\ groups = <<>>
    /\ delim = "'" /\ escape = FALSE
    /\ gi = 1 /\ rule = <<>>
    /\ tokens = <<>> /\ ti = 1 /\ curr = EmptyStmt /\ stmts = <<>>
    /\ w = 0 /\ offs = <<>> /\ si = 1 /\ recAt = <<>>

WriteStrCall ==
    /\ pc = "writeStr"
    /\ LET r == writeStr(sentinel.Method) IN
       /\ dest' = [dest EXCEPT !.data = @ \o r.out]
       /\ w' = w + Len(r.out)
       /\ err' = r.err
    /\ pc' = "done"
    /\ UNCHANGED <<entry, epts, snts, old, i, result, sentinel, ri,
                   scanVars, ruleVars, groupVars, offs, si, recAt>>

NextStr == WriteStrCall

SpecStr == InitStr /\ [][NextStr]_vars

\* ---------------------------------------------- writeCtx on its own
\* context names as they stand between the bars of a ctx value
CtxSample == <<"json_obj", "json_array ", " json_obj", "x">>

RECURSIVE NameLists(_)
NameLists(n) ==
    IF n = 0 THEN {<<>>}
    ELSE LET L == NameLists(n - 1) IN
         L \cup {Append(l, CtxSample[k]) : l \in L, k \in 1..Len(CtxSample)}

\* strings.Join(names, "|")
RECURSIVE Join(_, _)
Join(names, sep) ==
    IF names = <<>> THEN ""
    ELSE IF Len(names) = 1 THEN names[1]
    ELSE names[1] \o sep \o Join(Tail(names), sep)

CtxValues == {Join(l, "|") : l \in NameLists(MaxNames)}

\* writeCtx(w, stmt.Val) with the file as the sink w
InitCtx ==
    /\ entry = "writeCtx"
    /\ pc = "writeCtx"
    /\ curr \in {[EmptyStmt EXCEPT !.Var = CTX, !.Op = EQ, !.Val = v] : v \in CtxValues}
    /\ old = [exists |-> TRUE, data |-> <<>>]
    /\ dest = old
    /\ epts = <<>> /\ snts = <<>> /\ err = Nil
    /\ i = 1 /\ result = <<>> /\ sentinel = EmptySentinel /\ ri = 1
    /\ text = "" /\ pos = 0 /\ sb = "" /\ group = <<>> /\ groups = <<>>
    /\ delim = "'" /\ escape = FALSE
    /\ gi = 1 /\ rule = <<>>
    /\ tokens = <<>> /\ ti = 1 /\ stmts = <<>>
    /\ w = 0 /\ offs = <<>> /\ si = 1 /\ recAt = <<>>

WriteCtxCall ==
    /\ pc = "writeCtx"
    /\ LET r == writeCtx(curr.Val) IN
       IF r.err # Nil
       THEN /\ err' = r.err
            /\ pc' = "exit"
            /\ UNCHANGED dest
       ELSE FileWrite(r.out, "done")
    /\ UNCHANGED <<entry, epts, snts, old, i, result, sentinel, ri,
                   scanVars, ruleVars, groupVars, writeVars>>

NextCtx == WriteCtxCall

SpecCtx == InitCtx /\ [][NextCtx]_vars

\* ------------------------------------------- a mirror decoder of the stream
\* the unsigned little-endian number in the k bytes after offset off
RECURSIVE ReadUint(_, _, _)
ReadUint(data, off, k) ==
    IF k = 0 THEN 0 ELSE data[off + 1] + 256 * ReadUint(data, off + 1, k - 1)

Chr(b) == IF b <= 95 THEN At(AsciiLow, b - 31) ELSE At(AsciiHigh, b - 96)

RECURSIVE ReadChars(_, _, _)
ReadChars(data, off, n) ==
    IF n = 0 THEN "" ELSE Chr(data[off + 1]) \o ReadChars(data, off + 1, n - 1)

\* each reader gives the value read and the offset after it
ReadStr(data, off) ==
    LET n == ReadUint(data, off, 2) IN
    [v |-> ReadChars(data, off + 2, n), next |-> off + 2 + n]

ReadStmt(data, off) ==
    LET kind == data[off + 3] IN
    IF kind = NUMERIC
    THEN [v |-> [Var |-> data[off + 1], Op |-> data[off + 2], Kind |-> kind,
                 Num |-> ReadUint(data, off + 3, 8), Str |-> ""],
          next |-> off + 11]
    ELSE LET s == ReadStr(data, off + 3) IN
         [v |-> [Var |-> data[off + 1], Op |-> data[off + 2], Kind |-> kind,
                 Num |-> 0, Str |-> s.v],
          next |-> s.next]

RECURSIVE ReadStmts(_, _, _)
ReadStmts(data, off, n) ==
    IF n = 0 THEN [v |-> <<>>, next |-> off]
    ELSE LET h == ReadStmt(data, off)
             t == ReadStmts(data, h.next, n - 1)
         IN [v |-> <<h.v>> \o t.v, next |-> t.next]

ReadClause(data, off) == ReadStmts(data, off + 2, ReadUint(data, off, 2))

RECURSIVE ReadClauses(_, _, _)
ReadClauses(data, off, n) ==
    IF n = 0 THEN [v |-> <<>>, next |-> off]
    ELSE LET h == ReadClause(data, off)
             t == ReadClauses(data, h.next, n - 1)
         IN [v |-> <<h.v>> \o t.v, next |-> t.next]

ReadRule(data, off) == ReadClauses(data, off + 2, ReadUint(data, off, 2))

RECURSIVE ReadRules(_, _, _)
ReadRules(data, off, n) ==
    IF n = 0 THEN [v |-> <<>>, next |-> off]
    ELSE LET h == ReadRule(data, off)
             t == ReadRules(data, h.next, n - 1)
         IN [v |-> <<h.v>> \o t.v, next |-> t.next]

RECURSIVE ReadStrs(_, _, _)
ReadStrs(data, off, n) ==
    IF n = 0 THEN [v |-> <<>>, next |-> off]
    ELSE LET h == ReadStr(data, off)
             t == ReadStrs(data, h.next, n - 1)
         IN [v |-> <<h.v>> \o t.v, next |-> t.next]

ReadSentinel(data, off) ==
    LET m == ReadStr(data, off)
        path == ReadStrs(data, m.next + 2, ReadUint(data, m.next, 2))
        rules == ReadRules(data, path.next + 2, ReadUint(data, path.next, 2))
    IN [v |-> [Method |-> m.v, Path |-> path.v, Rules |-> rules.v],
        next |-> rules.next]

\* the set of context names a ctx value lists, and the bitmask of a set of codes
CtxNames(val) == {TrimSpace(Split(val, "|")[k]) : k \in 1..Len(Split(val, "|"))}

RECURSIVE MaskOf(_)
MaskOf(codes) ==
    IF codes = {} THEN 0
    ELSE LET n == CHOOSE n \in codes : TRUE IN Shl1(n) + MaskOf(codes \ {n})

\* what the stream keeps of a statement: field, operator, kind and value
ViewStmt(stmt) ==
    IF stmt.Var = CTX
    THEN [Var |-> stmt.Var, Op |-> stmt.Op, Kind |-> NUMERIC,
          Num |-> MaskOf({getCtxCode(c).n : c \in CtxNames(stmt.Val)}), Str |-> ""]
    ELSE IF stmt.Regexp # ""
    THEN [Var |-> stmt.Var, Op |-> stmt.Op, Kind |-> REGEXP, Num |-> 0,
          Str |-> stmt.Regexp]
    ELSE [Var |-> stmt.Var, Op |-> stmt.Op, Kind |-> STRING_, Num |-> 0,
          Str |-> stmt.Val]

ViewRule(gs) ==
    [g \in 1..Len(gs) |-> [k \in 1..Len(gs[g]) |-> ViewStmt(gs[g][k])]]

ViewSentinel(snt) ==
    [Method |-> snt.Method, Path |-> snt.Path,
     Rules |-> [r \in 1..Len(snt.Rules) |-> ViewRule(snt.Rules[r])]]

\* the rules of all the sentinels of the run
AllRules ==
    UNION {{snts[j].Rules[r] : r \in 1..Len(snts[j].Rules)} : j \in 1..Len(snts)}

\* the bytes of the file that the k-th record was written to
RecordBytes(k) ==
    SubSeq(dest.data, recAt[k] + 1,
           IF k < Len(recAt) THEN recAt[k + 1] ELSE Len(dest.data))

\* ---------------------------------------------------------------- claims

\* C1: the i-th entry of the offset table is the position, counted from the
\* start of the stream, at which the real pass began the i-th record; the
\* first is 4 + 2 + 8n + 2 and each next one is the previous plus the bytes
\* the real pass wrote for that sentinel.
C1_OffsetsAreRecordStarts ==
    /\ \A k \in 1..Len(recAt) : k <= Len(offs) /\ offs[k] = recAt[k]
    /\ pc = "done" =>
          /\ Len(offs) = Len(snts) /\ Len(recAt) = Len(snts)
          /\ ReadUint(dest.data, 4, 2) = Len(snts)
          /\ \A k \in 1..Len(snts) :
                /\ ReadUint(dest.data, 6 + 8 * (k - 1), 8) = recAt[k]
                /\ RecordBytes(k) = writeSentinel(snts[k]).out
                /\ ReadSentinel(dest.data, offs[k]).next = offs[k] + Len(RecordBytes(k))
                /\ offs[k] = IF k = 1 THEN 4 + 2 + 8 * Len(snts) + 2
                             ELSE offs[k - 1] + Len(RecordBytes(k - 1))

C1_Witness ==
    /\ pc = "done"
    /\ Len(snts) = 2
    /\ Len(RecordBytes(1)) # Len(RecordBytes(2))

\* C2: when a ctx statement names an unknown context the run aborts and the
\* destination is as it was before the run: not created, truncated or written.
C2_UnknownContextLeavesNoOutput ==
    (pc = "exit" /\ err.kind = "unknown context") => dest = old

\* a token that is neither a literal, nor a field, nor an operator or action
UnknownWord(token) ==
    /\ ~HasPrefix(token, "'")
    /\ ~HasPrefix(token, "/")
    /\ IF HasPrefix(token, "$")
       THEN token \notin {"$ctx", "$key", "$val", "$depth"}
       ELSE token \notin {"block", "pass", "==", "!="}

ParseErrors == {"unknown variable", "unknown operator"}

C3_State ==
    /\ (pc = "exit" /\ err.kind \in ParseErrors) =>
          /\ snts = <<>>
          /\ dest = old
          /\ err.arg = tokens[ti]
    /\ pc \in {"parseGroup", "exit"} =>
          \A k \in 1..(ti - 1) : ~UnknownWord(tokens[k])
    /\ err.kind \in ParseErrors => pc = "exit"

C3_Step ==
    /\ (pc = "parseGroup" /\ ti <= Len(tokens) /\ UnknownWord(tokens[ti])) =>
          /\ pc' = "exit"
          /\ err'.kind \in ParseErrors
          /\ snts' = <<>>
          /\ dest' = old
    /\ pc = "exit" => UNCHANGED vars

\* C3: an unknown field or an unknown operator or action in any rule ends the
\* run at that token: makeSentinels gives the error and no sentinel, also when
\* endpoints before it had parsed, and nothing runs afterwards, so the
\* destination is never opened.
C3_ParseErrorAborts == []C3_State /\ [][C3_Step]_vars

C3_Witness ==
    /\ pc = "exit"
    /\ err.kind = "unknown variable"
    /\ Len(result) >= 1
    /\ snts = <<>>
    /\ dest = old

InEndpoint == {"rules", "scanGroups", "scanWord", "scanDelim", "parseRule", "parseGroup"}

IsAppend(after, before) ==
    /\ Len(after) = Len(before) + 1
    /\ SubSeq(after, 1, Len(before)) = before

C4_State ==
    /\ Len(result) = i - 1
    /\ \A j \in 1..Len(result) :
          /\ result[j].Method = epts[j].Method
          /\ Len(result[j].Rules) = Len(epts[j].Rules)
          /\ \A j2 \in 1..Len(result) :
                \A k \in 1..Len(epts[j].Rules), k2 \in 1..Len(epts[j2].Rules) :
                   epts[j].Rules[k] = epts[j2].Rules[k2]
                      => result[j].Rules[k] = result[j2].Rules[k2]
    /\ pc \in InEndpoint =>
          /\ sentinel.Method = epts[i].Method
          /\ Len(sentinel.Rules) = ri - 1
    /\ pc \in InEndpoint \ {"rules"} => text = epts[i].Rules[ri]
    /\ pc \in {"parseRule", "parseGroup"} => Len(rule) = gi - 1
    /\ pc = "parseGroup" => tokens = groups[gi]
    /\ pc \notin InEndpoint \cup {"makeSentinels", "exit"} =>
          /\ snts = result
          /\ Len(snts) = Len(epts)
    /\ pc = "done" =>
          \A j \in 1..Len(epts) :
             /\ RecordBytes(j) = writeSentinel(snts[j]).out
             /\ ReadSentinel(dest.data, recAt[j]).v.Method = epts[j].Method
             /\ Len(ReadSentinel(dest.data, recAt[j]).v.Rules) = Len(epts[j].Rules)
             /\ \A j2 \in 1..Len(epts) :
                   epts[j] = epts[j2] => RecordBytes(j) = RecordBytes(j2)

C4_Step ==
    /\ result' # result => result' = Append(result, sentinel)
    /\ (pc = "parseRule" /\ sentinel' # sentinel) =>
          sentinel' = [sentinel EXCEPT !.Rules = Append(@, rule)]
    /\ (pc = "parseGroup" /\ rule' # rule) => rule' = Append(rule, stmts)
    /\ (pc = "parseGroup" /\ stmts' # stmts) => IsAppend(stmts', stmts)
    /\ (pc = "scanGroups" /\ groups' # groups) => groups' = Append(groups, group)
    /\ (pc \in {"scanWord", "scanDelim"} /\ group' # group) => IsAppend(group', group)

\* C4: source order is kept at every level: results only grow at their end,
\* the sentinel under construction is the one of the i-th endpoint with its
\* method, the rule being compiled is its ri-th rule string, the clause being
\* parsed is the gi-th group; equal rule strings and equal endpoints give equal
\* rules and records, none is merged or dropped.
C4_SourceOrderKept == []C4_State /\ [][C4_Step]_vars

C4_Witness ==
    /\ pc = "done"
    /\ Len(snts) = 2
    /\ snts[1].Method # snts[2].Method
    /\ \E r \in AllRules : Len(r) >= 2 /\ Len(r[1]) >= 2
    /\ Len(snts[1].Rules) = 2

Contains(s, c) == \E k \in 1..Len(s) : At(s, k) = c

IsLiteral(token) == HasPrefix(token, "'") \/ HasPrefix(token, "/")

Last(q) == q[Len(q)]

\* C6: no colon outside a quoted or regex literal is ever part of a token: a
\* colon that follows or sits inside a bare word ends the word and the group.
C6_ColonEndsGroup ==
    /\ \A g \in 1..Len(groups) : \A k \in 1..Len(groups[g]) :
          IsLiteral(groups[g][k]) \/ ~Contains(groups[g][k], ":")
    /\ \A k \in 1..Len(group) : IsLiteral(group[k]) \/ ~Contains(group[k], ":")
    /\ pc = "scanWord" => ~Contains(sb, ":")

\* the backslashes in a row that end at position p, counted from lo on
RECURSIVE BackslashRun(_, _, _)
BackslashRun(s, lo, p) ==
    IF p < lo \/ At(s, p) # "\\" THEN 0 ELSE 1 + BackslashRun(s, lo, p - 1)

\* position p holds a backslash that escapes the rune after it
ActiveEscape(s, lo, p) == At(s, p) = "\\" /\ BackslashRun(s, lo, p) % 2 = 1

\* the runes of s from lo to hi without the escaping backslashes
RECURSIVE KeptFrom(_, _, _, _)
KeptFrom(s, lo, p, hi) ==
    IF p > hi THEN ""
    ELSE (IF ActiveEscape(s, lo, p) THEN "" ELSE At(s, p)) \o KeptFrom(s, lo, p + 1, hi)

Kept(s, lo, hi) == KeptFrom(s, lo, lo, hi)

\* scanDelim has just returned: the rune last read closed a literal of delimiter d
JustClosed(d) ==
    /\ pc = "scanGroups"
    /\ pos > 0
    /\ At(text, pos) = d
    /\ group # <<>>
    /\ HasPrefix(Last(group), d)

\* the literal opened at start has no closing delimiter up to position hi
NoCloseUpTo(start, d, hi) ==
    \A p \in (start + 1)..hi : At(text, p) = d => ActiveEscape(text, start + 1, p - 1)

\* C7 as amended: the token of a literal is the input from the opening to the
\* closing delimiter without the backslashes that escape (the escaped rune is
\* kept); the closing delimiter is the first one not preceded by an active
\* escape; the regex of the statement is that token unchanged.
C7_TokenIsTextWithoutEscapes ==
    /\ pc = "scanDelim" =>
          \E start \in 1..pos :
             /\ At(text, start) = delim
             /\ sb = delim \o Kept(text, start + 1, pos)
             /\ escape = (pos > start /\ ActiveEscape(text, start + 1, pos))
             /\ NoCloseUpTo(start, delim, pos)
    /\ \A d \in {"'", "/"} :
          JustClosed(d) =>
             \E start \in 1..(pos - 1) :
                /\ At(text, start) = d
                /\ Last(group) = d \o Kept(text, start + 1, pos)
                /\ ~ActiveEscape(text, start + 1, pos - 1)
                /\ NoCloseUpTo(start, d, pos - 1)
    /\ (pc = "parseGroup" /\ ti > 1 /\ HasPrefix(tokens[ti - 1], "/")) =>
          \/ curr.Regexp = tokens[ti - 1]
          \/ stmts # <<>> /\ Last(stmts).Regexp = tokens[ti - 1]

C7_Witness ==
    /\ JustClosed("/")
    /\ Len(Last(group)) = 3
    /\ Last(group) = "///"

\* C7: the token of a literal is exactly the input from the opening through
\* the closing delimiter, every backslash of an escape included.
C7_RawTokenVerbatim ==
    \A d \in {"'", "/"} :
       JustClosed(d) =>
          \E start \in 1..(pos - 1) :
             /\ At(text, start) = d
             /\ Last(group) = SubSeq(text, start, pos)

\* C8: after a token that starts with a quote the value is the token without
\* its first and its last rune.
C8_QuotesRemovedOnce ==
    (pc = "parseGroup" /\ ti > 1 /\ HasPrefix(tokens[ti - 1], "'")) =>
       LET inner == SubSeq(tokens[ti - 1], 2, Len(tokens[ti - 1]) - 1) IN
       \/ curr.Val = inner
       \/ curr = EmptyStmt /\ stmts # <<>> /\ Last(stmts).Val = inner

\* C9: after each token the accumulator has been appended and reset if it has
\* a field, an operator and a value, the empty literal '' included, or if its
\* operator is block or pass; so none of these is left in curr.
C9_CompleteIsAppended ==
    (pc = "parseGroup" /\ ti > 1) =>
       /\ curr.Op \notin {BLOCK, PASS}
       /\ ~(/\ curr.Var # 0
            /\ curr.Op # 0
            /\ \/ curr.Val # ""
               \/ curr.Regexp # ""
               \/ HasPrefix(tokens[ti - 1], "'"))

\* C10: an emitted statement with == or != has exactly one of string value and
\* regex, one with block or pass has no field, no string value and no regex.
C10_ValueInvariant ==
    \A k \in 1..Len(stmts) :
       IF stmts[k].Op \in {BLOCK, PASS}
       THEN stmts[k].Var = 0 /\ stmts[k].Val = "" /\ stmts[k].Regexp = ""
       ELSE (stmts[k].Val # "") # (stmts[k].Regexp # "")

\* the names getCtxCode knows
KnownCtx ==
    {"headers", "urlenc", "base64", "cookie", "json", "json_obj", "json_array",
     "path", "http", "auth_header", "base64_url", "jwt"}

\* C11: the 8 bytes writeCtx writes are the OR of 1 << code over the trimmed
\* names of the list, so two lists give the same bytes exactly when they have
\* the same set of names, whatever the order and the repetitions;
\* "json_obj|json_array" and "json_array|json_obj" both give (1<<6)|(1<<7).
C11_MaskOfNameSet ==
    /\ pc = "done" =>
          /\ CtxNames(curr.Val) \subseteq KnownCtx
          /\ Len(dest.data) = 8
          /\ ReadUint(dest.data, 0, 8)
                = MaskOf({getCtxCode(c).n : c \in CtxNames(curr.Val)})
          /\ CtxNames(curr.Val) = {"json_obj", "json_array"}
                => ReadUint(dest.data, 0, 8) = 64 + 128
          /\ \A v \in CtxValues :
                writeCtx(v).err = Nil =>
                   ((writeCtx(v).out = dest.data) <=> (CtxNames(v) = CtxNames(curr.Val)))
    /\ (pc = "exit" /\ err.kind = "unknown context") =>
          /\ err.arg \in CtxNames(curr.Val) \ KnownCtx
          /\ dest.data = <<>>

C11_Witness ==
    /\ pc = "done"
    /\ curr.Val = " json_obj|json_array | json_obj"
    /\ ReadUint(dest.data, 0, 8) = 192

\* the maximal runs of runes other than '/' in s, read rune by rune from k on,
\* cur being the run under way
RECURSIVE Runs(_, _, _)
Runs(s, k, cur) ==
    IF k > Len(s) THEN (IF cur = "" THEN <<>> ELSE <<cur>>)
    ELSE IF At(s, k) = "/"
    THEN (IF cur = "" THEN <<>> ELSE <<cur>>) \o Runs(s, k + 1, "")
    ELSE Runs(s, k + 1, cur \o At(s, k))

\* the path of every sentinel compiled so far, with the path of its endpoint
CompiledPaths ==
    {<<epts[j].Path, result[j].Path>> : j \in 1..Len(result)}
       \cup (IF pc = "rules" THEN {<<epts[i].Path, sentinel.Path>>} ELSE {})

\* C12: the path of a sentinel is the sequence of the maximal non-empty runs
\* between slashes of the endpoint path, in order: no segment is empty or
\* holds a slash, joining the segments with slashes and splitting again gives
\* the same segments, and the record in the stream holds these segments.
C12_PathSegments ==
    /\ \A c \in CompiledPaths :
          /\ c[2] = Runs(c[1], 1, "")
          /\ \A k \in 1..Len(c[2]) : c[2][k] # "" /\ ~Contains(c[2][k], "/")
          /\ PathSegments(Join(c[2], "/")) = c[2]
          /\ c[1] = "/api/*" => c[2] = <<"api", "*">>
          /\ c[1] = "/" => c[2] = <<>>
          /\ c[1] = "/a//b/" => c[2] = <<"a", "b">>
    /\ pc = "done" =>
          \A j \in 1..Len(snts) :
             ReadSentinel(dest.data, offs[j]).v.Path = Runs(epts[j].Path, 1, "")

C12_Witness ==
    /\ pc = "done"
    /\ epts[1].Path = "/a//b/"
    /\ ReadSentinel(dest.data, offs[1]).v.Path = <<"a", "b">>

\* n records read one after the other from offset off
RECURSIVE ReadSentinels(_, _, _)
ReadSentinels(data, off, n) ==
    IF n = 0 THEN [v |-> <<>>, next |-> off]
    ELSE LET h == ReadSentinel(data, off)
             t == ReadSentinels(data, h.next, n - 1)
         IN [v |-> <<h.v>> \o t.v, next |-> t.next]

\* C13: the stream of a run that succeeded on n endpoints is the 4-byte
\* version, a 2-byte count n, n 8-byte offsets, a 2-byte count n, and n
\* records that fill the stream to its end; for no endpoint it is the 8 bytes of
\* the version and the two zero counts, whatever the destination held before.
C13_StreamLayout ==
    pc = "done" =>
       LET n == Len(epts)
           data == dest.data
       IN /\ dest.exists
          /\ Len(data) >= 8 + 8 * n
          /\ ReadUint(data, 0, 4) = VERSION
          /\ ReadUint(data, 4, 2) = n
          /\ \A k \in 1..n : ReadUint(data, 6 + 8 * (k - 1), 8) < Len(data)
          /\ ReadUint(data, 6 + 8 * n, 2) = n
          /\ ReadSentinels(data, 8 + 8 * n, n).next = Len(data)
          /\ Len(ReadSentinels(data, 8 + 8 * n, n).v) = n
          /\ n = 0 => data = <<4, 0, 0, 0, 0, 0, 0, 0>>

C13_Witness ==
    /\ pc = "done"
    /\ old = Previous
    /\ \/ epts = <<>> /\ Len(dest.data) = 8
       \/ Len(epts) = 1 /\ ReadUint(dest.data, 14, 2) = 1 /\ Len(dest.data) > 16

FieldCode(token) ==
    CASE token = "$ctx" -> CTX [] token = "$key" -> KEY
      [] token = "$val" -> VAL [] token = "$depth" -> DEPTH [] OTHER -> 0

OpCode(token) ==
    CASE token = "block" -> BLOCK [] token = "pass" -> PASS
      [] token = "==" -> EQ [] token = "!=" -> NEQ [] OTHER -> 0

\* the tokens 3j-2, 3j-1, 3j of g are a field, == or !=, and a literal whose
\* value is not empty
IsCondition(g, j) ==
    /\ FieldCode(g[3 * j - 2]) # 0
    /\ g[3 * j - 1] \in {"==", "!="}
    /\ IsLiteral(g[3 * j])
    /\ HasPrefix(g[3 * j], "'") => Trim(g[3 * j], {"'"}) # ""

\* g is k conditions, one after the other
IsConditions(g) ==
    /\ Len(g) % 3 = 0
    /\ \A j \in 1..(Len(g) \div 3) : IsCondition(g, j)

\* the statement of the j-th condition of g
ConditionStmt(g, j) ==
    [Var |-> FieldCode(g[3 * j - 2]),
     Op |-> OpCode(g[3 * j - 1]),
     Val |-> IF HasPrefix(g[3 * j], "'") THEN Trim(g[3 * j], {"'"}) ELSE "",
     Regexp |-> IF HasPrefix(g[3 * j], "/") THEN g[3 * j] ELSE ""]

TerminalStmt(token) == [Var |-> 0, Op |-> OpCode(token), Val |-> "", Regexp |-> ""]

\* parseRule has returned to makeSentinels: groups are the token groups of
\* the rule string and the last rule of the sentinel is what it compiled to
RuleCompiled == entry = "main" /\ pc = "rules" /\ ri > 1

ClosedTokens ==
    \A g \in {group} \cup {groups[k] : k \in 1..Len(groups)} :
       \A k \in 1..Len(g) :
          IsLiteral(g[k]) => Len(g[k]) >= 2 /\ At(g[k], Len(g[k])) = At(g[k], 1)

C15_State ==
    /\ (pc = "exit" /\ err.kind = "fatal") =>
          /\ pos = Len(text)
          /\ \E start \in 1..pos :
                /\ At(text, start) = delim
                /\ sb = delim \o Kept(text, start + 1, pos)
                /\ NoCloseUpTo(start, delim, pos)
          /\ dest = old
          /\ snts = <<>> /\ result = <<>>
          /\ i = 1 /\ ri = 1 /\ text = epts[1].Rules[1]
    /\ ClosedTokens

C15_Step ==
    /\ (pc = "scanDelim" /\ pos >= Len(text)) =>
          /\ pc' = "exit"
          /\ err' = Error("fatal", "invalid string")
          /\ UNCHANGED <<group, groups, sentinel, result, snts, dest, i, ri>>
    /\ (pc = "scanDelim" /\ pos < Len(text)) =>
          /\ pc' # "exit"
          /\ (~escape /\ At(text, pos + 1) = delim) =>
                pc' = "scanGroups" /\ group' = Append(group, sb \o delim)
    /\ (pc' = "exit" /\ err'.kind = "fatal") => pc \in {"scanDelim", "exit"}
    /\ pc = "exit" => UNCHANGED vars

\* C15: when the input ends inside a quoted or regex literal, also one whose
\* only closing delimiter is escaped, the run ends there: the literal is not
\* returned as a token, the next rule is not scanned, no sentinel is made and
\* the destination is as it was; a literal that meets its delimiter outside an
\* escape is returned as a token and does not end the run.
C15_UnterminatedIsFatal == []C15_State /\ [][C15_Step]_vars

C15_Witness ==
    /\ pc = "exit"
    /\ err.kind = "fatal"
    /\ text = "/a\\/"
    /\ sb = "/a/"
    /\ group = <<>>
    /\ dest = Previous

\* the statements of a sequence of rules
StmtsOf(rs) ==
    UNION {UNION {{rs[r][g][k] : k \in 1..Len(rs[r][g])} : g \in 1..Len(rs[r])} :
              r \in 1..Len(rs)}

\* the statements parseGroup has emitted for the group it is in, and those of
\* the sentinel the counting pass is about to write
EmittedStmts ==
    (IF pc = "parseGroup" THEN {stmts[k] : k \in 1..Len(stmts)} ELSE {})
       \cup (IF pc = "count" /\ si <= Len(snts) THEN StmtsOf(snts[si].Rules) ELSE {})

\* C16: a statement is written as its field code, its operator code, and then
\* NUMERIC and the 8-byte bitmask if the field is ctx, else REGEXP and the
\* length-prefixed regex if it has one, else STRING and the length-prefixed
\* string value; writing fails only for a ctx statement whose string value
\* lists a name that is not a known context, after the three codes.
C16_StmtEncoding ==
    /\ \A st \in EmittedStmts :
          LET r == writeStmt(st)
              bad == st.Var = CTX /\ ~(CtxNames(st.Val) \subseteq KnownCtx)
          IN /\ (r.err # Nil) <=> bad
             /\ Len(r.out) >= 3
             /\ r.out[1] = st.Var
             /\ r.out[2] = st.Op
             /\ r.out[3] = (IF st.Var = CTX THEN NUMERIC
                            ELSE IF st.Regexp # "" THEN REGEXP ELSE STRING_)
             /\ bad => r.err.kind = "unknown context" /\ Len(r.out) = 3
             /\ (~bad /\ st.Var = CTX) =>
                   /\ Len(r.out) = 3 + 8
                   /\ ReadUint(r.out, 3, 8)
                         = MaskOf({getCtxCode(c).n : c \in CtxNames(st.Val)})
             /\ (st.Var # CTX /\ st.Regexp # "") =>
                   /\ Len(r.out) = 3 + 2 + Len(st.Regexp)
                   /\ ReadStr(r.out, 3).v = st.Regexp
             /\ (st.Var # CTX /\ st.Regexp = "") =>
                   /\ Len(r.out) = 3 + 2 + Len(st.Val)
                   /\ ReadStr(r.out, 3).v = st.Val
    /\ (pc = "exit" /\ err.kind \notin {"io", "fatal"} \cup ParseErrors) =>
          /\ err.kind = "unknown context"
          /\ \E st \in StmtsOf(snts[si].Rules) :
                st.Var = CTX /\ err.arg \in CtxNames(st.Val) \ KnownCtx

C16_Witness ==
    /\ pc = "exit"
    /\ err = Error("unknown context", "")
    /\ \E st \in StmtsOf(snts[si].Rules) :
          st.Var = CTX /\ st.Regexp = "/json/" /\ st.Val = ""

\* C17: in every rule of a run that succeeded no clause is empty, and the last
\* statement of the last clause is block or pass.
C17_FinalClauseIsTerminal ==
    pc = "done" =>
       \A r \in AllRules :
          /\ r # <<>>
          /\ \A g \in 1..Len(r) : r[g] # <<>>
          /\ Last(Last(r)).Op \in {BLOCK, PASS}

\* C18: the 2-byte length before a string is the number of bytes written
\* after it, which is the length of the string, for strings of any length.
C18_LengthFieldIsLength ==
    pc = "done" =>
       /\ w = Len(dest.data)
       /\ Len(dest.data) = 2 + Len(sentinel.Method)
       /\ ReadUint(dest.data, 0, 2) = Len(dest.data) - 2

C19_State ==
    /\ pc = "version" => dest = [exists |-> TRUE, data |-> <<>>]
    /\ pc \in {"offsetTable", "count"} =>
          dest = [exists |-> TRUE, data |-> LittleEndian(VERSION, 4)]
    /\ (pc = "exit" /\ err.kind = "unknown context") =>
          /\ dest = [exists |-> TRUE, data |-> <<4, 0, 0, 0>>]
          /\ recAt = <<>>
          /\ writeSentinel(snts[si]).err = err
    /\ pc \in {"header", "records"} =>
          /\ Len(offs) = Len(snts)
          /\ \A j \in 1..Len(snts) : writeSentinel(snts[j]).err = Nil

C19_Step ==
    /\ (err'.kind = "unknown context" /\ err.kind # "unknown context") => pc = "count"
    /\ (pc \in {"header", "records"} /\ pc' = "exit") => err'.kind = "io"
    /\ (pc = "writeSentinels" /\ pc' # "exit") => dest'.data = <<>> /\ pc' = "version"
    /\ pc' = "offsetTable" => pc \in {"version", "offsetTable"}

\* C19: the destination is opened with truncation and the version is written
\* before offsetTable runs; an unknown context is met in offsetTable only, and
\* then the destination holds the 4 version bytes and nothing else; after
\* offsetTable has returned its offsets the real pass fails on I/O only.
C19_EncodingErrorsInCountingPass == []C19_State /\ [][C19_Step]_vars

C19_Witness ==
    /\ pc = "exit"
    /\ err.kind = "unknown context"
    /\ old = Previous
    /\ dest.data = <<4, 0, 0, 0>>
    /\ si = 2

C20_State ==
    /\ (pc = "exit" /\ err.kind \in ParseErrors) =>
          /\ UnknownWord(tokens[ti])
          /\ err = Error(IF HasPrefix(tokens[ti], "$") THEN "unknown variable"
                         ELSE "unknown operator", tokens[ti])
    /\ (pc = "parseGroup" /\ ti > Len(tokens)) =>
          \A k \in 1..Len(tokens) : ~UnknownWord(tokens[k])
    /\ (pc = "parseRule" /\ gi > Len(groups)) =>
          \A g \in 1..Len(groups) : \A k \in 1..Len(groups[g]) :
             ~UnknownWord(groups[g][k])

C20_Step ==
    /\ (pc = "parseGroup" /\ ti <= Len(tokens)) =>
          LET t == tokens[ti]
              after == IF curr' = EmptyStmt /\ stmts' # stmts THEN Last(stmts') ELSE curr'
          IN IF UnknownWord(t)
             THEN pc' = "exit" /\ err'.kind \in ParseErrors
             ELSE /\ pc' = "parseGroup" /\ err' = Nil /\ ti' = ti + 1
                  /\ after =
                        (IF HasPrefix(t, "'") THEN [curr EXCEPT !.Val = Trim(t, {"'"})]
                         ELSE IF HasPrefix(t, "/") THEN [curr EXCEPT !.Regexp = t]
                         ELSE IF HasPrefix(t, "$") THEN [curr EXCEPT !.Var = FieldCode(t)]
                         ELSE [curr EXCEPT !.Op = OpCode(t)])
    /\ (pc = "parseGroup" /\ ti > Len(tokens)) =>
          /\ rule' = Append(rule, stmts)
          /\ err' = Nil
          /\ pc' = "parseRule"
    /\ (pc = "parseRule" /\ pc' = "parseGroup") => curr' = EmptyStmt /\ stmts' = <<>>

\* C20: parseGroup fails exactly on a token that starts with $ and is not one
\* of the four fields, or that starts with none of ' / $ and is not one of
\* block, pass, ==, !=; a token it accepts replaces its part of the accumulator
\* whatever that part held, and what is left in the accumulator when the group
\* ends is in no statement and raises no error.
C20_ParseGroupErrors == []C20_State /\ [][C20_Step]_vars

C20_Witness ==
    /\ pc = "parseRule"
    /\ gi = 3
    /\ text = "$key $val == != 'a' 'b' : $depth =="
    /\ rule = << <<[Var |-> VAL, Op |-> NEQ, Val |-> "a", Regexp |-> ""]>>, <<>> >>
    /\ curr = [Var |-> DEPTH, Op |-> EQ, Val |-> "", Regexp |-> ""]

====
